---- MODULE Spec2Model ----
(***************************************************************************)
(* mio::StringReader (mio/stringreader.hpp): a line reader over a memory   *)
(* mapped file, with a pull API getline(), a push driver getline(handler)  *)
(* and a multi-worker variant getline_async<NumThreads>(handler).          *)
(*                                                                         *)
(* Pointers are byte offsets relative to m_mmap.begin(): offset 0 is the   *)
(* first byte of the region and offset Size is m_mmap.end().  Bytes are    *)
(* one-character strings.  The mapped region is `file`; `tail` is what the *)
(* address space holds right after the region (the rest of the last page), *)
(* which the code can only see through an out-of-bounds read; the first    *)
(* offset after the tail is not readable and a read there faults.          *)
(***************************************************************************)
EXTENDS Integers, Sequences, FiniteSets, TLC

\* ---- bounds of the model ----
MaxLen == 5              \* longest mapped file, in bytes
MaxTail == 2             \* longest readable run of bytes after the region
MaxThreads == 3          \* largest NumThreads instantiated (the code allows 2..8)
MinFileByteSize == 4     \* the template's parallel threshold, scaled down from 1024 * 1024

NL == "\n"
Byte == {NL, "a"}

\* nullptr, as an offset relative to the region: far below it, so that every
\* address derived from it is still outside the readable range.
NullPtr == 0 - (2 * (MaxLen + MaxTail + 1))

\* the outcome of a scan that touched an unreadable address
FAULT == NullPtr - 1

VARIABLES
  file,        \* the bytes of the mapped region (m_mmap), fixed
  tail,        \* readable bytes that follow the region in memory, fixed
  mapped,      \* m_mmap.is_mapped()
  m_begin,     \* the reader's cursor, NullPtr once end of file was seen
  pc,          \* where the calling thread is: idle, push, dispatch, join, crashed, destroyed
  op,          \* the public operation last entered
  path,        \* for getline_async: "seq" (fallback) or "par"
  entry,       \* m_begin when the current operation was entered
  l_numlines,  \* getline(handler): lines counted so far
  NumThreads,  \* getline_async: template argument of the call in progress
  l_adv,       \* getline_async: the ideal slice size
  l_begin,     \* getline_async: start of the next chunk
  l_end,       \* getline_async: end of the next chunk
  i,           \* getline_async: loop index of the dispatch loop / of accumulate
  l_futures,   \* getline_async: one task per slot: its range, cursor, counter and state
  acc,         \* getline_async: running sum of std::accumulate
  retCount,    \* value returned by the last getline(handler) / getline_async
  retView,     \* view returned by the last getline()
  pulled,      \* views returned by getline() since construction, in order
  delivered,   \* views handed to the handler in the current call, per thread (0: caller)
  used,        \* public operations entered since construction
  nullScan,    \* a scan was started from the null cursor
  oob          \* a byte outside [begin, end) was examined

vars == << file, tail, mapped, m_begin, pc, op, path, entry, l_numlines, NumThreads,
           l_adv, l_begin, l_end, i, l_futures, acc, retCount, retView, pulled,
           delivered, used, nullScan, oob >>

Size == Len(file)                \* m_mmap.size(); m_mmap.end() is offset Size
Readable == Size + Len(tail)     \* first offset at which a read faults

SeqsOf(S, lo, hi) == UNION {[1..n -> S] : n \in lo..hi}

\* the byte at offset o, for 0 <= o < Readable
Mem(o) == IF o < Size THEN file[o + 1] ELSE tail[o - Size + 1]

CanRead(o) == o >= 0 /\ o < Readable

\* std::find(first, last, '\n') over raw memory
RECURSIVE find(_, _)
find(first, last) ==
  IF first = last THEN last
  ELSE IF ~CanRead(first) THEN FAULT
  ELSE IF Mem(first) = NL THEN first
  ELSE find(first + 1, last)

\* std::find over reverse iterators: cur and first are the base() pointers of
\* the current and the final reverse iterator; the result is a base() pointer
RECURSIVE rfind(_, _)
rfind(cur, first) ==
  IF cur = first THEN first
  ELSE IF ~CanRead(cur - 1) THEN FAULT
  ELSE IF Mem(cur - 1) = NL THEN cur
  ELSE rfind(cur - 1, first)

\* StringReader::find_end
find_end(a_begin, a_advance) ==
  LET l_find == rfind(a_begin + a_advance, a_begin)
  IN IF l_find = FAULT THEN FAULT ELSE l_find + 1

EofView == [ptr |-> NullPtr, len |-> 0]
View(b, e) == [ptr |-> b, len |-> e - b]

\* StringReader::eof
eof == m_begin = NullPtr

\* StringReader::is_mapped
is_mapped == mapped

NoTask == [st |-> "none", a_begin |-> 0, a_end |-> 0, l_begin |-> 0, l_counter |-> 0]
Slots == 0..(MaxThreads - 1)
Threads == 0..MaxThreads
NoOutput == [t \in Threads |-> << >>]

\* StringReader::StringReader
Init ==
  /\ file \in SeqsOf(Byte, 1, MaxLen)
  /\ tail \in SeqsOf(Byte, 0, MaxTail)
  /\ mapped = TRUE
  /\ m_begin = 0
  /\ pc = "idle"
  /\ op = "none"
  /\ path = "none"
  /\ entry = 0
  /\ l_numlines = 0
  /\ NumThreads = 2
  /\ l_adv = 0
  /\ l_begin = 0
  /\ l_end = 0
  /\ i = 0
  /\ l_futures = [k \in Slots |-> NoTask]
  /\ acc = 0
  /\ retCount = 0
  /\ retView = EofView
  /\ pulled = << >>
  /\ delivered = NoOutput
  /\ used = {}
  /\ nullScan = FALSE
  /\ oob = FALSE

\* getline() with the terminator left inside the returned view
getline_KeepsTerminator(c) ==
  LET l_find == find(c, Size)
  IN IF l_find = FAULT THEN [fault |-> TRUE, view |-> EofView, m_begin |-> c]
     ELSE IF l_find # Size
          THEN [fault |-> FALSE, view |-> View(c, l_find + 1), m_begin |-> l_find + 1]
          ELSE [fault |-> FALSE, view |-> EofView, m_begin |-> NullPtr]

\* getline() signalling end of file as soon as the line it returns is the last
getline_EagerEof(c) ==
  LET l_find == find(c, Size)
  IN IF l_find = FAULT THEN [fault |-> TRUE, view |-> EofView, m_begin |-> c]
     ELSE IF l_find # Size
          THEN [fault |-> FALSE, view |-> View(c, l_find),
                m_begin |-> IF l_find + 1 = Size THEN NullPtr ELSE l_find + 1]
          ELSE [fault |-> FALSE, view |-> EofView, m_begin |-> NullPtr]

\* StringReader::getline(): the view returned and the cursor left behind when
\* the cursor is c; fault when the scan touched an unreadable address
getline(c) ==
  LET l_find == find(c, Size)
  IN IF l_find = FAULT THEN [fault |-> TRUE, view |-> EofView, m_begin |-> c]
     ELSE IF l_find # Size
          THEN [fault |-> FALSE, view |-> View(c, l_find), m_begin |-> l_find + 1]
          ELSE [fault |-> FALSE, view |-> EofView, m_begin |-> NullPtr]

\* getline(handler) as a whole: the value it returns when entered with cursor c
\* and l_numlines = n (one getline() and one increment per iteration)
RECURSIVE getline_handler(_, _)
getline_handler(c, n) ==
  IF c = NullPtr THEN n
  ELSE LET r == getline(c)
       IN IF r.fault THEN n ELSE getline_handler(r.m_begin, n + 1)

\* getline(handler) as a whole: the views it hands to the handler, in order,
\* when entered with cursor c
RECURSIVE getline_handler_views(_)
getline_handler_views(c) ==
  IF c = NullPtr THEN << >>
  ELSE LET r == getline(c)
       IN IF r.fault THEN << >> ELSE << r.view >> \o getline_handler_views(r.m_begin)

\* the forward scan from first towards last examines a byte outside the region
ScanLeavesRegion(first, last) ==
  \/ first < 0
  \/ \E o \in first..(last - 1) : o >= Size /\ \A q \in first..(o - 1) : Mem(q) # NL

\* the backward scan of find_end examines a byte outside the region
WindowLeavesRegion(a_begin, a_advance) ==
  a_advance > 0 /\ (a_begin < 0 \/ a_begin + a_advance - 1 >= Size)

asyncVars == << NumThreads, l_adv, l_begin, l_end, i, l_futures, acc >>

\* the pull API: one call of getline(). Nothing tests the cursor first: with
\* m_begin = nullptr the scan starts at address 0, which is not readable.
Getline ==
  /\ pc = "idle"
  /\ LET r == getline(m_begin)
     IN /\ pc' = IF r.fault THEN "crashed" ELSE "idle"
        /\ m_begin' = r.m_begin
        /\ retView' = IF r.fault THEN retView ELSE r.view
        /\ pulled' = IF r.fault THEN pulled ELSE Append(pulled, r.view)
  /\ op' = "getline"
  /\ entry' = m_begin
  /\ used' = used \cup {"getline"}
  /\ nullScan' = (nullScan \/ m_begin = NullPtr)
  /\ oob' = (oob \/ ScanLeavesRegion(m_begin, Size))
  /\ UNCHANGED << file, tail, mapped, path, l_numlines, retCount, delivered >>
  /\ UNCHANGED asyncVars

\* getline(handler): entry, l_numlines{0}
GetlinePush ==
  /\ pc = "idle"
  /\ pc' = "push"
  /\ op' = "getline_push"
  /\ path' = "none"
  /\ entry' = m_begin
  /\ l_numlines' = 0
  /\ delivered' = NoOutput
  /\ used' = used \cup {"getline_push"}
  /\ UNCHANGED << file, tail, mapped, m_begin, retCount, retView, pulled, nullScan, oob >>
  /\ UNCHANGED asyncVars

\* getline(handler): one iteration of while (!eof())
PushIter ==
  /\ pc = "push"
  /\ ~eof
  /\ LET r == getline(m_begin)
     IN /\ pc' = IF r.fault THEN "crashed" ELSE "push"
        /\ m_begin' = r.m_begin
        /\ delivered' = IF r.fault THEN delivered
                        ELSE [delivered EXCEPT ![0] = Append(@, r.view)]
        /\ l_numlines' = IF r.fault THEN l_numlines ELSE l_numlines + 1
  /\ oob' = (oob \/ ScanLeavesRegion(m_begin, Size))
  /\ UNCHANGED << file, tail, mapped, op, path, entry, retCount, retView, pulled,
                  used, nullScan >>
  /\ UNCHANGED asyncVars

\* getline(handler) releasing the mapping when it reaches end of file
PushReturn_Unmaps ==
  /\ pc = "push"
  /\ eof
  /\ pc' = "idle"
  /\ retCount' = l_numlines
  /\ mapped' = FALSE
  /\ UNCHANGED << file, tail, m_begin, op, path, entry, l_numlines, retView,
                  pulled, delivered, used, nullScan, oob >>
  /\ UNCHANGED asyncVars

\* getline(handler): the loop ends, return l_numlines
PushReturn ==
  /\ pc = "push"
  /\ eof
  /\ pc' = "idle"
  /\ retCount' = l_numlines
  /\ UNCHANGED << file, tail, mapped, m_begin, op, path, entry, l_numlines, retView,
                  pulled, delivered, used, nullScan, oob >>
  /\ UNCHANGED asyncVars

\* a threshold test that sends a file one byte under the threshold to the workers
BelowThreshold_OffByOne == Size + 1 < MinFileByteSize

\* getline_async: m_mmap.size() < MinFileByteSize
BelowThreshold == Size < MinFileByteSize

\* getline_async<n>: the fallback test, or l_adv and the first chunk
GetlineAsync(n) ==
  /\ pc = "idle"
  /\ op' = "getline_async"
  /\ entry' = m_begin
  /\ used' = used \cup {"getline_async"}
  /\ NumThreads' = n
  /\ delivered' = NoOutput
  /\ IF BelowThreshold
     THEN /\ path' = "seq"
          /\ pc' = "push"
          /\ l_numlines' = 0
          /\ UNCHANGED << l_adv, l_begin, l_end, i, l_futures, acc, nullScan, oob >>
     ELSE LET adv == Size \div n
              e == find_end(m_begin, adv)
          IN /\ path' = "par"
             /\ l_adv' = adv
             /\ l_begin' = m_begin
             /\ l_end' = e
             /\ i' = 0
             /\ acc' = 0
             /\ l_futures' = [k \in Slots |-> NoTask]
             /\ pc' = IF e = FAULT THEN "crashed" ELSE "dispatch"
             /\ nullScan' = (nullScan \/ m_begin = NullPtr)
             /\ oob' = (oob \/ WindowLeavesRegion(m_begin, adv))
             /\ UNCHANGED l_numlines
  /\ UNCHANGED << file, tail, mapped, m_begin, retCount, retView, pulled >>

\* std::distance(l_end, m_mmap.end()) < l_adv: the distance is signed, l_adv is
\* a size_t, so the distance is converted to unsigned; a negative distance
\* becomes a value above every slice size and the test is false
DistanceBelow(e, adv) ==
  LET d == Size - e
  IN d >= 0 /\ d < adv

\* the end of the next chunk: find_end, then the clamp to m_mmap.end()
NextEnd(b, adv) ==
  LET e == find_end(b, adv)
  IN IF e = FAULT THEN FAULT
     ELSE IF DistanceBelow(e, adv) THEN Size ELSE e

\* the task std::async starts for the range [b, e)
NewTask(b, e) ==
  [st |-> "run", a_begin |-> b, a_end |-> e, l_begin |-> b, l_counter |-> 0]

\* getline_async: one iteration of the for loop. l_futures holds null
\* unique_ptrs, so *l_futures[i] = ... stores through a null pointer: the
\* build either faults there or keeps the future.
Dispatch ==
  /\ pc = "dispatch"
  /\ i < NumThreads
  /\ \/ /\ pc' = "crashed"
        /\ UNCHANGED << l_begin, l_end, i, l_futures, oob >>
     \/ LET e == NextEnd(l_end, l_adv)
        IN /\ l_futures' = [l_futures EXCEPT ![i] = NewTask(l_begin, l_end)]
           /\ l_begin' = l_end
           /\ l_end' = e
           /\ i' = i + 1
           /\ pc' = IF e = FAULT THEN "crashed" ELSE "dispatch"
           /\ oob' = (oob \/ WindowLeavesRegion(l_end, l_adv))
  /\ UNCHANGED << file, tail, mapped, m_begin, op, path, entry, l_numlines, NumThreads,
                  l_adv, acc, retCount, retView, pulled, delivered, used, nullScan >>

\* getline_async: the for loop ends, std::accumulate starts from 0
DispatchDone ==
  /\ pc = "dispatch"
  /\ i = NumThreads
  /\ pc' = "join"
  /\ i' = 0
  /\ acc' = 0
  /\ UNCHANGED << file, tail, mapped, m_begin, op, path, entry, l_numlines, NumThreads,
                  l_adv, l_begin, l_end, l_futures, retCount, retView, pulled,
                  delivered, used, nullScan, oob >>

\* a get() that does not wait for its task
Ready_NoWait(k) == l_futures[k].st # "none"

\* future::get() returns once the task has finished
Ready(k) == l_futures[k].st = "done"

\* std::accumulate: a->get() + b for the next future, in slot order. The
\* lambda names the future first and the running sum second; it is read as the
\* sum of the tasks' results. The sum is an int (the initial value is 0): it
\* would wrap past 2^31 - 1 lines, a size no bounded file of the model reaches.
Join ==
  /\ pc = "join"
  /\ i < NumThreads
  /\ Ready(i)
  /\ acc' = acc + l_futures[i].l_counter
  /\ i' = i + 1
  /\ UNCHANGED << file, tail, mapped, m_begin, pc, op, path, entry, l_numlines,
                  NumThreads, l_adv, l_begin, l_end, l_futures, retCount, retView,
                  pulled, delivered, used, nullScan, oob >>

\* getline_async returning as soon as the first future was collected
AsyncReturn_Early ==
  /\ pc = "join"
  /\ i >= 1
  /\ pc' = "idle"
  /\ retCount' = acc
  /\ UNCHANGED << file, tail, mapped, m_begin, op, path, entry, l_numlines, NumThreads,
                  l_adv, l_begin, l_end, i, l_futures, acc, retView, pulled, delivered,
                  used, nullScan, oob >>

\* getline_async leaving the reader at end of file when it returns
AsyncReturn_AtEof ==
  /\ pc = "join"
  /\ i = NumThreads
  /\ pc' = "idle"
  /\ retCount' = acc
  /\ m_begin' = NullPtr
  /\ UNCHANGED << file, tail, mapped, op, path, entry, l_numlines, NumThreads,
                  l_adv, l_begin, l_end, i, l_futures, acc, retView, pulled, delivered,
                  used, nullScan, oob >>

\* getline_async: return the accumulated sum
AsyncReturn ==
  /\ pc = "join"
  /\ i = NumThreads
  /\ pc' = "idle"
  /\ retCount' = acc
  /\ UNCHANGED << file, tail, mapped, m_begin, op, path, entry, l_numlines, NumThreads,
                  l_adv, l_begin, l_end, i, l_futures, acc, retView, pulled, delivered,
                  used, nullScan, oob >>

\* a task that hands each line to the handler ahead of the lines it found before
Worker_NewestFirst(k) ==
  /\ pc # "crashed"
  /\ l_futures[k].st = "run"
  /\ LET t == l_futures[k]
         l_find == find(t.l_begin, t.a_end)
     IN /\ oob' = (oob \/ ScanLeavesRegion(t.l_begin, t.a_end))
        /\ IF l_find = FAULT
           THEN /\ pc' = "crashed"
                /\ UNCHANGED << l_futures, delivered >>
           ELSE IF l_find # t.a_end
           THEN /\ delivered' = [delivered EXCEPT ![k + 1] = << View(t.l_begin, l_find) >> \o @]
                /\ l_futures' = [l_futures EXCEPT ![k].l_counter = @ + 1,
                                                  ![k].l_begin = l_find + 1]
                /\ UNCHANGED pc
           ELSE /\ l_futures' = [l_futures EXCEPT ![k].st = "done"]
                /\ UNCHANGED << pc, delivered >>
  /\ UNCHANGED << file, tail, mapped, m_begin, op, path, entry, l_numlines, NumThreads,
                  l_adv, l_begin, l_end, i, acc, retCount, retView, pulled, used,
                  nullScan >>

\* do_getline_async: one std::find and the loop test that follows it, in the
\* task of slot k
Worker(k) ==
  /\ pc # "crashed"
  /\ l_futures[k].st = "run"
  /\ LET t == l_futures[k]
         l_find == find(t.l_begin, t.a_end)
     IN /\ oob' = (oob \/ ScanLeavesRegion(t.l_begin, t.a_end))
        /\ IF l_find = FAULT
           THEN /\ pc' = "crashed"
                /\ UNCHANGED << l_futures, delivered >>
           ELSE IF l_find # t.a_end
           THEN /\ delivered' = [delivered EXCEPT ![k + 1] = Append(@, View(t.l_begin, l_find))]
                /\ l_futures' = [l_futures EXCEPT ![k].l_counter = @ + 1,
                                                  ![k].l_begin = l_find + 1]
                /\ UNCHANGED pc
           ELSE /\ l_futures' = [l_futures EXCEPT ![k].st = "done"]
                /\ UNCHANGED << pc, delivered >>
  /\ UNCHANGED << file, tail, mapped, m_begin, op, path, entry, l_numlines, NumThreads,
                  l_adv, l_begin, l_end, i, acc, retCount, retView, pulled, used,
                  nullScan >>

\* StringReader::~StringReader
Destroy ==
  /\ pc = "idle"
  /\ mapped' = FALSE
  /\ pc' = "destroyed"
  /\ UNCHANGED << file, tail, m_begin, op, path, entry, l_numlines, retCount, retView,
                  pulled, delivered, used, nullScan, oob >>
  /\ UNCHANGED asyncVars

Next ==
  \/ Getline
  \/ GetlinePush
  \/ PushIter
  \/ PushReturn
  \/ \E n \in 2..MaxThreads : GetlineAsync(n)
  \/ Dispatch
  \/ DispatchDone
  \/ Join
  \/ AsyncReturn
  \/ \E k \in Slots : Worker(k)
  \/ Destroy

Spec == Init /\ [][Next]_vars

\* A thread that can take its next step eventually takes it: the calling
\* thread inside getline(handler) or getline_async, and every task started by
\* std::async. Nothing obliges the caller to start another call.
Fairness ==
  /\ WF_vars(PushIter)
  /\ WF_vars(PushReturn)
  /\ WF_vars(Dispatch)
  /\ WF_vars(DispatchDone)
  /\ WF_vars(Join)
  /\ WF_vars(AsyncReturn)
  /\ \A k \in Slots : WF_vars(Worker(k))

FairSpec == Spec /\ Fairness

TypeOK ==
  /\ m_begin \in (0..Size) \cup {NullPtr}
  /\ pc \in {"idle", "push", "dispatch", "join", "crashed", "destroyed"}
  /\ mapped \in BOOLEAN

\* ---- what the file contains, stated without the reader ----

\* offsets of the terminators of the file
NLPos == {p \in 0..(Size - 1) : file[p + 1] = NL}
NumTerminated == Cardinality(NLPos)
\* the k-th terminator, k = 1..NumTerminated
KthNL(k) == CHOOSE p \in NLPos : Cardinality({q \in NLPos : q <= p}) = k
\* where the k-th line starts
LineStart(k) == IF k = 1 THEN 0 ELSE KthNL(k - 1) + 1
\* the terminated lines of the file, in file order, terminator excluded
TerminatedLines == [k \in 1..NumTerminated |-> View(LineStart(k), KthNL(k))]
\* every line of the file ends with a terminator
AllTerminated == file[Size] = NL

\* a finished call of the named operation
Returned(o) == pc = "idle" /\ op = o
\* a finished getline_async call that took the parallel path on a fresh reader
ParReturned == Returned("getline_async") /\ path = "par" /\ entry = 0
\* every task of the call in progress has been started
AllDispatched ==
  /\ op = "getline_async" /\ path = "par"
  /\ pc \in {"join", "idle"}
\* slots of the call in progress
Used == 0..(NumThreads - 1)

RECURSIVE SumCounters(_)
SumCounters(n) == IF n = 0 THEN 0 ELSE SumCounters(n - 1) + l_futures[n - 1].l_counter

\* terminators in memory between offsets b and e
NLsIn(b, e) == Cardinality({o \in b..(e - 1) : Mem(o) = NL})
RECURSIVE SumNLs(_)
SumNLs(n) ==
  IF n = 0 THEN 0
  ELSE SumNLs(n - 1) + NLsIn(l_futures[n - 1].a_begin, l_futures[n - 1].a_end)

\* C1: on a file whose every line ends with '\n' and whose size reaches the
\* threshold, the total returned by getline_async on the parallel path equals
\* the total getline(handler) returns on a fresh reader of the same file.
C1_ParallelEqualsSequential ==
  (ParReturned /\ AllTerminated) => retCount = getline_handler(0, 0)

\* C2: the chunk ranges handed to the workers, in dispatch order, partition the
\* mapped region: the first starts at the beginning, each starts where the
\* previous one ended, and the last ends at the region's end.
C2_ChunksPartitionRegion ==
  (AllDispatched /\ entry = 0) =>
     /\ l_futures[0].a_begin = 0
     /\ \A k \in Used : k > 0 => l_futures[k].a_begin = l_futures[k - 1].a_end
     /\ l_futures[NumThreads - 1].a_end = Size

\* C3: on a fresh reader used through getline() only, the views returned so
\* far are the first terminated lines of the file in file order, each
\* [cursor, p) with p the next '\n', the cursor stands right after the last
\* returned line, and at end of file all terminated lines were returned,
\* followed by the end-of-file view; bytes after the last '\n' are not returned.
C3_PullYieldsLines ==
  (used \subseteq {"getline"}) =>
     IF eof
     THEN pulled = Append(TerminatedLines, EofView)
     ELSE /\ Len(pulled) <= NumTerminated
          /\ pulled = SubSeq(TerminatedLines, 1, Len(pulled))
          /\ m_begin = LineStart(Len(pulled) + 1)

\* C3 witness: a file with three terminated lines and unterminated bytes after
\* them was read to end of file through getline()
C3_Witness ==
  /\ used = {"getline"} /\ eof /\ pc = "idle"
  /\ NumTerminated = 3 /\ ~AllTerminated
  /\ Len(pulled) = 4

\* C4: getline(handler) on a fresh reader invokes the handler once per
\* terminated line and returns the number of terminated lines.
C4_PushCountsTerminatedLines ==
  (Returned("getline_push") /\ entry = 0) =>
     /\ retCount = NumTerminated
     /\ delivered[0] = TerminatedLines

\* C5: every internal chunk boundary is a line start: the byte before it is
\* '\n', or it is the end of the region.
C5_BoundariesOnLineStart ==
  (AllDispatched /\ entry = 0) =>
     \A k \in Used : k > 0 =>
        LET b == l_futures[k].a_begin
        IN b = Size \/ (b >= 1 /\ b <= Size /\ file[b] = NL)

\* C6 as stated: is_mapped() is true after construction, false after the
\* release, and false after getline(handler) reached end of file.
C6_UnmappedAfterDriver ==
  /\ (op = "none" /\ pc = "idle") => is_mapped
  /\ pc = "destroyed" => ~is_mapped
  /\ (Returned("getline_push") /\ eof) => ~is_mapped

\* C6 amended: is_mapped() is true from construction on, also after
\* getline(handler) reached end of file, and is false exactly once the
\* destructor has released the mapping.
C6_MappedUntilDestroyed ==
  is_mapped <=> pc # "destroyed"

\* C6 witness: getline(handler) returned at end of file and the mapping is
\* still active
C6_Witness ==
  Returned("getline_push") /\ eof /\ is_mapped /\ retCount > 0

\* C7: no scan is ever started from the null cursor.
C7_ScanIsGuarded ==
  ~nullScan

C9_NoReleaseWhileWorkerRuns ==
  /\ (\E k \in Slots : l_futures[k].st = "run") => is_mapped
  /\ ~is_mapped => pc = "destroyed"

\* C9 witness: the caller waits in the aggregation while a task is running
C9_Witness ==
  /\ pc = "join" /\ is_mapped
  /\ \E k \in Used : l_futures[k].st = "run" /\ l_futures[k].l_counter > 0

\* C10: the total returned by getline_async on the parallel path depends on
\* the memory contents and the chunk ranges only, not on the schedule, and it
\* equals the total of the sequential driver on the same file.
C10_DeterministicAndSequential ==
  ParReturned =>
     /\ retCount = SumNLs(NumThreads)
     /\ retCount = getline_handler(0, 0)
\* C11: on a file smaller than the threshold getline_async starts no task and
\* does what getline(handler) does from the same cursor: the same views reach
\* the handler in the same order, on the calling thread, the same value is
\* returned and the reader is left at end of file.
C11_FallbackIsSequentialDriver ==
  (op = "getline_async" /\ Size < MinFileByteSize) =>
     /\ path = "seq"
     /\ \A k \in Slots : l_futures[k] = NoTask
     /\ \A t \in Threads : t > 0 => delivered[t] = << >>
     /\ pc = "idle" =>
          /\ retCount = getline_handler(entry, 0)
          /\ delivered[0] = getline_handler_views(entry)
          /\ eof

\* C11 witness: the fallback returned after handing several views to the handler
C11_Witness ==
  /\ Returned("getline_async") /\ path = "seq" /\ entry = 0
  /\ Size < MinFileByteSize
  /\ retCount >= 3 /\ Len(delivered[0]) = retCount
\* C12: the chunk boundaries are non-decreasing and lie within the region:
\* begin <= b_i <= b_(i+1) <= end for every chunk, and a chunk that follows one
\* clamped to the region end is empty.
C12_BoundariesMonotoneInRegion ==
  (op = "getline_async" /\ path = "par" /\ entry = 0) =>
     \A k \in Used : l_futures[k].st # "none" =>
        /\ 0 <= l_futures[k].a_begin
        /\ l_futures[k].a_begin <= l_futures[k].a_end
        /\ l_futures[k].a_end <= Size
        /\ (k > 0 /\ l_futures[k - 1].a_end = Size) => l_futures[k].a_end = l_futures[k].a_begin
\* the search window of the chunk that starts at b lies in the region and holds
\* no terminator
WindowWithoutNL(b) ==
  /\ b >= 0 /\ b + l_adv <= Size
  /\ \A o \in b..(b + l_adv - 1) : file[o + 1] # NL

\* C13: when the search window [chunk_start, chunk_start + slice) holds no
\* '\n' the boundary is chunk_start, the chunk is empty, and its worker calls
\* the handler zero times and contributes 0.
C13_NoTerminatorGivesEmptyChunk ==
  (op = "getline_async" /\ path = "par" /\ entry = 0) =>
     \A k \in Used :
        (l_futures[k].st # "none" /\ WindowWithoutNL(l_futures[k].a_begin)) =>
           /\ l_futures[k].a_end = l_futures[k].a_begin
           /\ l_futures[k].l_counter = 0
           /\ delivered[k + 1] = << >>
\* the workers' threads, and how many times the view v reached the handler on them
WorkerThreads == 1..NumThreads
RECURSIVE TimesDelivered(_, _)
TimesDelivered(v, t) ==
  IF t = 0 THEN 0
  ELSE TimesDelivered(v, t - 1)
       + Cardinality({j \in 1..Len(delivered[t]) : delivered[t][j] = v})
LineSet == {TerminatedLines[k] : k \in 1..NumTerminated}

\* C14: on a file whose every line is terminated, every view the parallel path
\* hands to the handler is a complete line of the file, and the views delivered
\* are, as a multiset, the lines of the file: each line exactly once.
C14_NoLineSplit ==
  (ParReturned /\ AllTerminated) =>
     /\ \A t \in WorkerThreads : \A j \in 1..Len(delivered[t]) : delivered[t][j] \in LineSet
     /\ \A v \in LineSet : TimesDelivered(v, NumThreads) = 1
\* a step that is one call of getline() made before end of file
GetlineCall == pc = "idle" /\ pc' = "idle" /\ pulled' # pulled /\ ~eof

\* C15: eof() is false after construction; a getline() call made before end of
\* file leaves eof() false when a '\n' lies between the cursor and the region
\* end, and makes it true, returning {nullptr, 0}, exactly when none does (also
\* when the cursor is already at the end).
C15_EofAtFirstMiss ==
  /\ ~eof
  /\ [][GetlineCall =>
          /\ eof' <=> (\A o \in m_begin..(Size - 1) : file[o + 1] # NL)
          /\ eof' <=> (retView' = EofView)]_vars

\* C15 witness: getline() found a line, then a call with the cursor at the
\* region end returned the end-of-file view and eof() became true
C15_Witness ==
  /\ used = {"getline"} /\ pc = "idle"
  /\ eof /\ retView = EofView
  /\ AllTerminated /\ Len(pulled) >= 2
\* the calling thread is inside getline(handler) or getline_async
InScan == pc \in {"push", "dispatch", "join"}

\* C16: every scan runs to completion: once getline(handler) or getline_async
\* has been entered, the call eventually returns.
C16_EveryScanReturns ==
  InScan ~> (pc = "idle")
\* C17: the lines one worker hands to the handler arrive in file order: of two
\* views delivered by the same task, the one delivered first starts, and ends,
\* at the lower offset, whatever the other tasks do meanwhile.
C17_FileOrderWithinChunk ==
  \A t \in 1..MaxThreads : \A j, j2 \in 1..Len(delivered[t]) :
     j < j2 => delivered[t][j].ptr + delivered[t][j].len < delivered[t][j2].ptr

\* C17 witness: two tasks are running, the later chunk's task has delivered
\* lines before the earlier chunk's task delivered its second line
C17_Witness ==
  /\ pc \in {"dispatch", "join"}
  /\ \E k, k2 \in Used :
        /\ k < k2
        /\ l_futures[k].st = "run" /\ l_futures[k2].st = "run"
        /\ Len(delivered[k + 1]) = 1 /\ Len(delivered[k2 + 1]) >= 2
\* C18: every byte examined by the backward search of find_end and by the
\* chunk workers lies inside the mapped region [begin, end), on a reader used
\* through getline_async only.
C18_ReadsStayInRegion ==
  (used \subseteq {"getline_async"}) => ~oob

\* the cursor during and after a getline_async call
CursorKept ==
  /\ (op = "getline_async" /\ path = "par") => m_begin = entry
  /\ (Returned("getline_async") /\ path = "par") => ~eof
  /\ (Returned("getline_async") /\ path = "seq") => eof
\* a getline_async call entered right after one that returned on the parallel path
SecondCall ==
  /\ Returned("getline_async") /\ path = "par"
  /\ op' = "getline_async" /\ pc' = "dispatch"

\* C19: on the parallel path getline_async never moves the reader's cursor:
\* eof() is false when it returns, and a second call starts where the call
\* before it started, with the same first chunk when the worker count is the
\* same; the fallback path leaves the reader at end of file.
C19_ParallelPathKeepsCursor ==
  [][/\ CursorKept'
     /\ SecondCall =>
          /\ l_begin' = l_futures[0].a_begin
          /\ NumThreads' = NumThreads => l_end' = l_futures[0].a_end]_vars

\* C19 witness: a call on the parallel path returned a total and the cursor is
\* still at the beginning of the region
C19_Witness ==
  /\ ParReturned /\ retCount > 0
  /\ m_begin = 0 /\ ~eof
====
